---- MODULE Spec2Model ----
(***************************************************************************)
(* coda-helper: the process-manager descriptor (ecosystem.config.js), the  *)
(* README's setup procedure and the packaging manifest (pyproject.toml).   *)
(*                                                                         *)
(* The descriptor, the README steps and the manifest are transcribed from  *)
(* the files.  The process manager that interprets the descriptor, the     *)
(* package resolver and the shell tools the README calls are not part of   *)
(* the repository: they are modelled as the environment, each action       *)
(* reading the descriptor key or README line it acts for.                  *)
(***************************************************************************)
EXTENDS Integers, Sequences, FiniteSets, TLC

VARIABLES
    step,        \* number of README setup steps completed, in documented order
    files,       \* paths (sequences of components) present in the project directory
    pinned,      \* interpreter version selected by `pyenv local`, or NoVersion
    activeEnv,   \* directory of the activated virtual environment, or NoEnv
    installedIn, \* environment `poetry install` installed into, or NoEnv
    lock,        \* package -> version chosen by the resolver (<<>> before install)
    installState,\* "none" | "ok" | "failed"
    managed,     \* the app is registered with the process manager
    loaded,      \* the apps list the process manager read from the descriptor
    status,      \* "stopped" | "online" | "restarting" | "errored"
    procs,       \* live process instances, each with what it was launched with
    pending,     \* a filesystem change was seen and no restart has acted on it yet
    starts,      \* number of operator start commands so far
    changes,     \* number of external filesystem changes so far
    restarts     \* number of watch-triggered restarts completed

vars == <<step, files, pinned, activeEnv, installedIn, lock, installState,
          managed, loaded, status, procs, pending, starts, changes, restarts>>

setupVars == <<step, files, pinned, activeEnv, installedIn, lock, installState>>
pmVars == <<managed, loaded, status, procs, starts, restarts>>

\* ---------------------------------------------------------------- bounds
MaxStarts == 2
MaxChanges == 2
Spread == 1

\* ------------------------------------------------- ecosystem.config.js
App_TwoInstances ==
    [name |-> "coda-helper", script |-> "run.py",
     interpreter |-> <<".", "venv", "bin", "python">>,
     instances |-> 2, exec_mode |-> "fork", watch |-> TRUE,
     env |-> [PYTHONPATH |-> "."]]

App_NoEnv ==
    [name |-> "coda-helper", script |-> "run.py",
     interpreter |-> <<".", "venv", "bin", "python">>,
     instances |-> 1, exec_mode |-> "fork", watch |-> TRUE]

App_ExtraKey ==
    [name |-> "coda-helper", script |-> "run.py",
     interpreter |-> <<".", "venv", "bin", "python">>,
     instances |-> 1, exec_mode |-> "fork", watch |-> TRUE,
     autorestart |-> FALSE,
     env |-> [PYTHONPATH |-> "."]]

\* apps[0]; the interpreter path "./venv/bin/python" is kept as its components
App ==
    [name |-> "coda-helper", script |-> "run.py",
     interpreter |-> <<".", "venv", "bin", "python">>,
     instances |-> 1, exec_mode |-> "fork", watch |-> TRUE,
     env |-> [PYTHONPATH |-> "."]]

\* module.exports.apps
apps == <<App>>

\* ---------------------------------------------------------- README.md
\* "## Requirements - Python 3.10+"
ReadmeMinPython == <<3, 10>>

\* "pyenv local 3.10.9"
ReadmePin == <<3, 10, 9>>

ReadmeVenvDir_DotVenv == ".venv"

\* "pyenv exec python3 -m venv venv": the directory argument
ReadmeVenvDir == "venv"

\* "source ./venv/bin/activate": the environment directory of the script sourced
ReadmeActivateDir == "venv"

\* "git clone ...": the files of the repository, at the project root
RepoFiles ==
    { <<"ecosystem.config.js">>, <<"README.md">>, <<"pyproject.toml">>, <<"run.py">> }

\* ------------------------------------------------------ pyproject.toml
\* Every entry is a caret constraint; spec holds the components as written
\* ("^3.10" has two, "^0.111.0" has three).
RuntimeDependencies ==
    { [group |-> "main", name |-> "python",            spec |-> <<3, 10>>],
      [group |-> "main", name |-> "fastapi",           spec |-> <<0, 111, 0>>],
      [group |-> "main", name |-> "pydantic",          spec |-> <<2, 7, 1>>],
      [group |-> "main", name |-> "pydantic-settings", spec |-> <<2, 2, 1>>],
      [group |-> "main", name |-> "python-dotenv",     spec |-> <<1, 0, 1>>],
      [group |-> "main", name |-> "uvicorn",           spec |-> <<0, 29, 0>>] }

DevDependencies_Conflict ==
    { [group |-> "dev", name |-> "asgiref",        spec |-> <<3, 8, 1>>],
      [group |-> "dev", name |-> "coverage",       spec |-> <<7, 5, 1>>],
      [group |-> "dev", name |-> "httpx",          spec |-> <<0, 27, 0>>],
      [group |-> "dev", name |-> "pydantic",       spec |-> <<1, 10, 0>>],
      [group |-> "dev", name |-> "pytest",         spec |-> <<7, 4, 4>>],
      [group |-> "dev", name |-> "pytest-asyncio", spec |-> <<0, 21, 2>>],
      [group |-> "dev", name |-> "pytest-cov",     spec |-> <<4, 1, 0>>],
      [group |-> "dev", name |-> "pytest-mock",    spec |-> <<3, 14, 0>>] }

DevDependencies_NoMock ==
    { [group |-> "dev", name |-> "asgiref",        spec |-> <<3, 8, 1>>],
      [group |-> "dev", name |-> "coverage",       spec |-> <<7, 5, 1>>],
      [group |-> "dev", name |-> "httpx",          spec |-> <<0, 27, 0>>],
      [group |-> "dev", name |-> "pytest",         spec |-> <<7, 4, 4>>],
      [group |-> "dev", name |-> "pytest-asyncio", spec |-> <<0, 21, 2>>],
      [group |-> "dev", name |-> "pytest-cov",     spec |-> <<4, 1, 0>>] }

DevDependencies ==
    { [group |-> "dev", name |-> "asgiref",        spec |-> <<3, 8, 1>>],
      [group |-> "dev", name |-> "coverage",       spec |-> <<7, 5, 1>>],
      [group |-> "dev", name |-> "httpx",          spec |-> <<0, 27, 0>>],
      [group |-> "dev", name |-> "pytest",         spec |-> <<7, 4, 4>>],
      [group |-> "dev", name |-> "pytest-asyncio", spec |-> <<0, 21, 2>>],
      [group |-> "dev", name |-> "pytest-cov",     spec |-> <<4, 1, 0>>],
      [group |-> "dev", name |-> "pytest-mock",    spec |-> <<3, 14, 0>>] }

Declared == RuntimeDependencies \cup DevDependencies

\* the packages to install: every declared name but the interpreter itself
Packages == { d.name : d \in Declared } \ {"python"}

BuildRequires_Setuptools == { <<"setuptools">> }

\* [build-system] requires = ["poetry-core"]: distribution names, split at "-"
BuildRequires == { <<"poetry", "core">> }

\* build-backend = "poetry.core.masonry.api": the module path, split at "."
BuildBackend == <<"poetry", "core", "masonry", "api">>

\* ------------------------------------------------------------ versions
NoVersion == <<>>
NoEnv == "none"

\* a constraint's components completed with zeros: 3.10 is 3.10.0
Pad(spec) == [i \in 1..3 |-> IF i <= Len(spec) THEN spec[i] ELSE 0]

VLess(a, b) ==
    \/ a[1] < b[1]
    \/ a[1] = b[1] /\ a[2] < b[2]
    \/ a[1] = b[1] /\ a[2] = b[2] /\ a[3] < b[3]

VLeq(a, b) == a = b \/ VLess(a, b)

\* the component a caret constraint lets no release go past: the leftmost
\* non-zero one, or the last one written when all are zero
CaretPivot(spec) ==
    IF \E i \in 1..Len(spec) : spec[i] # 0
    THEN CHOOSE i \in 1..Len(spec) :
             spec[i] # 0 /\ \A j \in 1..(i - 1) : spec[j] = 0
    ELSE Len(spec)

\* the first version a caret constraint excludes
CaretUpper(spec) ==
    [i \in 1..3 |-> IF i < CaretPivot(spec) THEN Pad(spec)[i]
                    ELSE IF i = CaretPivot(spec) THEN Pad(spec)[i] + 1
                    ELSE 0]

\* v meets "^spec": spec <= v < CaretUpper(spec)
Satisfies(v, spec) == VLeq(Pad(spec), v) /\ VLess(v, CaretUpper(spec))

\* "Python 3.10+"
ReadmeAdmits(v) == VLeq(Pad(ReadmeMinPython), v)

\* python = "^3.10"
ManifestAdmits(v) == \A d \in Declared : d.name = "python" => Satisfies(v, d.spec)

Lo(n) == IF n > Spread THEN n - Spread ELSE 0

\* versions within Spread of b in every component
Near(b) ==
    { <<x, y, z>> : x \in Lo(b[1])..(b[1] + Spread),
                    y \in Lo(b[2])..(b[2] + Spread),
                    z \in Lo(b[3])..(b[3] + Spread) }

\* the interpreter versions pyenv can be asked for: the README's pin, the
\* x.y.0 releases around the README's minimum and the next major release
PyenvVersions ==
    {ReadmePin} \cup { v \in Near(Pad(ReadmeMinPython)) : v[3] = 0 }
                \cup { <<ReadmeMinPython[1] + 1, 0, 0>> }

\* ------------------------------------------------------------ resolver
\* the releases the package index offers for p: those around each declared
\* version of p
Index(p) == UNION { Near(Pad(d.spec)) : d \in { e \in Declared : e.name = p } }

\* the releases of p that meet every constraint declared on p
Admissible(p) ==
    { v \in Index(p) : \A d \in Declared : d.name = p => Satisfies(v, d.spec) }

Newest(S) == CHOOSE v \in S : \A w \in S : VLeq(w, v)

Resolvable == \A p \in Packages : Admissible(p) # {}

\* one version per package, the newest admissible one
Resolution == [p \in Packages |-> Newest(Admissible(p))]

\* --------------------------------------------------------------- paths
\* a path without its "." components: "./venv/bin/python" is "venv/bin/python"
RECURSIVE Normalize(_)
Normalize(path) ==
    IF path = <<>> THEN <<>>
    ELSE IF Head(path) = "." THEN Normalize(Tail(path))
    ELSE <<Head(path)>> \o Normalize(Tail(path))

\* the interpreter a virtual environment in directory dir provides
EnvPython(dir) == <<dir, "bin", "python">>

\* the files `python -m venv dir` creates
VenvFiles(dir) == { EnvPython(dir), <<dir, "bin", "activate">>, <<dir, "pyvenv.cfg">> }

\* where installing p into environment dir puts it
SitePackage(dir, p) == <<dir, "lib", "site-packages", p>>

IsPrefix(s, t) == Len(s) <= Len(t) /\ \A i \in 1..Len(s) : s[i] = t[i]

\* the import package a distribution provides: "poetry-core" ships poetry.core
Provides(dist) == dist

\* ---------------------------------------------------------------- state
Init ==
    /\ step = 0
    /\ files = {}
    /\ pinned = NoVersion
    /\ activeEnv = NoEnv
    /\ installedIn = NoEnv
    /\ lock = <<>>
    /\ installState = "none"
    /\ managed = FALSE
    /\ loaded = <<>>
    /\ status = "stopped"
    /\ procs = {}
    /\ pending = FALSE
    /\ starts = 0
    /\ changes = 0
    /\ restarts = 0

\* --------------------------------------------- README: the setup steps
\* "### Clone the project"
GitClone ==
    /\ step = 0
    /\ files' = files \cup RepoFiles
    /\ step' = 1
    /\ UNCHANGED <<pinned, activeEnv, installedIn, lock, installState>>
    /\ UNCHANGED <<pmVars, pending, changes>>

\* "pyenv local <version>"
PyenvLocal(v) ==
    /\ step = 1
    /\ pinned' = v
    /\ files' = files \cup { <<".python-version">> }
    /\ step' = 2
    /\ UNCHANGED <<activeEnv, installedIn, lock, installState>>
    /\ UNCHANGED <<pmVars, pending, changes>>

\* "pyenv exec python3 -m venv venv"
VenvCreate ==
    /\ step = 2
    /\ files' = files \cup VenvFiles(ReadmeVenvDir)
    /\ step' = 3
    /\ UNCHANGED <<pinned, activeEnv, installedIn, lock, installState>>
    /\ UNCHANGED <<pmVars, pending, changes>>

\* "source ./venv/bin/activate": sourcing a script that is not there fails and
\* leaves the shell without an active environment
Activate ==
    /\ step = 3
    /\ activeEnv' = IF <<ReadmeActivateDir, "bin", "activate">> \in files
                    THEN ReadmeActivateDir ELSE NoEnv
    /\ step' = 4
    /\ UNCHANGED <<files, pinned, installedIn, lock, installState>>
    /\ UNCHANGED <<pmVars, pending, changes>>

\* the environment poetry makes for itself, outside the project, when the
\* shell has none active
PoetryOwnEnv == "poetry-cache"

\* "poetry install": refuses an interpreter the manifest's python constraint
\* excludes, resolves every package and installs into the active environment
PoetryInstall ==
    /\ step = 4
    /\ step' = 5
    /\ IF ManifestAdmits(pinned) /\ Resolvable
       THEN LET target == IF activeEnv # NoEnv THEN activeEnv ELSE PoetryOwnEnv
            IN  /\ installState' = "ok"
                /\ lock' = Resolution
                /\ installedIn' = target
                /\ files' = IF target = PoetryOwnEnv THEN files
                            ELSE files \cup { SitePackage(target, p) : p \in Packages }
       ELSE /\ installState' = "failed"
            /\ UNCHANGED <<lock, installedIn, files>>
    /\ UNCHANGED <<pinned, activeEnv>>
    /\ UNCHANGED <<pmVars, pending, changes>>

\* "make install-git-hooks"
InstallGitHooks ==
    /\ step = 5
    /\ files' = files \cup { <<".git", "hooks", "pre-commit">> }
    /\ step' = 6
    /\ UNCHANGED <<pinned, activeEnv, installedIn, lock, installState>>
    /\ UNCHANGED <<pmVars, pending, changes>>

\* ------------------------------------------------- the process manager
\* env is optional in an app entry
EnvOf(app) == IF "env" \in DOMAIN app THEN app.env ELSE <<>>

\* what launch number n of app forks: `instances` processes of `interpreter script`
Forked(app, n) ==
    { [launch |-> n, instance |-> i, name |-> app.name, script |-> app.script,
       interpreter |-> app.interpreter, mode |-> app.exec_mode,
       env |-> EnvOf(app)] : i \in 1..app.instances }

\* the interpreter and the script must exist for the fork to succeed
CanLaunch(app) == Normalize(app.interpreter) \in files /\ <<app.script>> \in files

\* a launch adds processes to those alive; it stops none
Launch(app, n) ==
    IF CanLaunch(app)
    THEN procs' = procs \cup Forked(app, n) /\ status' = "online"
    ELSE procs' = procs /\ status' = "errored"

\* the operator starts the descriptor: the manager reads apps and launches
PmStart ==
    /\ ~managed
    /\ starts < MaxStarts
    /\ <<"ecosystem.config.js">> \in files
    /\ managed' = TRUE
    /\ loaded' = apps
    /\ starts' = starts + 1
    /\ Launch(apps[1], starts + restarts + 1)
    /\ UNCHANGED <<setupVars, pending, changes, restarts>>

\* something in the project directory changes; with watch on, the manager
\* notes that a restart is due
FileChange ==
    /\ step >= 1
    /\ changes < MaxChanges
    /\ changes' = changes + 1
    /\ pending' = IF managed /\ loaded[1].watch THEN TRUE ELSE pending
    /\ UNCHANGED <<setupVars, pmVars>>

\* a due restart begins: the running instances are stopped first
RestartKill ==
    /\ managed
    /\ pending
    /\ status # "restarting"
    /\ procs' = {}
    /\ status' = "restarting"
    /\ pending' = FALSE
    /\ UNCHANGED <<setupVars, managed, loaded, starts, changes, restarts>>

\* the restart ends: the app is launched again from the entry read at start
RestartFork ==
    /\ managed
    /\ status = "restarting"
    /\ Launch(loaded[1], starts + restarts + 1)
    /\ restarts' = restarts + 1
    /\ UNCHANGED <<setupVars, managed, loaded, starts, changes, pending>>

\* the operator removes the app from the manager
PmDelete ==
    /\ managed
    /\ managed' = FALSE
    /\ loaded' = <<>>
    /\ procs' = {}
    /\ status' = "stopped"
    /\ pending' = FALSE
    /\ UNCHANGED <<setupVars, starts, changes, restarts>>

Next ==
    \/ GitClone
    \/ \E v \in PyenvVersions : PyenvLocal(v)
    \/ VenvCreate
    \/ Activate
    \/ PoetryInstall
    \/ InstallGitHooks
    \/ PmStart
    \/ FileChange
    \/ RestartKill
    \/ RestartFork
    \/ PmDelete

Spec == Init /\ [][Next]_vars

\* ---------------------------------------------------------------- C1
\* C1: in every reachable state at most one process instance of the app is
\* alive, restarts included, and every instance runs in fork mode (no cluster
\* of replicas is started).
C1_AtMostOneInstance ==
    /\ Cardinality(procs) <= 1
    /\ \A p \in procs : p.name = "coda-helper" /\ p.mode = "fork"

\* a watch-triggered restart has completed and the relaunched instance is alive
C1_Witness == restarts >= 1 /\ status = "online" /\ Cardinality(procs) = 1

\* ---------------------------------------------------------------- C3
\* the keys section 6 of the specification documents for the descriptor
DocumentedKeys ==
    {"name", "script", "interpreter", "instances", "exec_mode", "watch", "env"}

\* C3 as stated: the descriptor the manager has read holds exactly one app
\* entry whose key set equals the documented keys, and those keys are five.
C3_FiveDocumentedKeys ==
    managed =>
        /\ Len(loaded) = 1
        /\ DOMAIN loaded[1] = DocumentedKeys
        /\ Cardinality(DOMAIN loaded[1]) = 5

\* C3 amended: the descriptor the manager has read holds exactly one app
\* entry, and its key set equals the seven documented keys.
C3_OneEntryDocumentedKeys ==
    managed =>
        /\ Len(loaded) = 1
        /\ DOMAIN loaded[1] = DocumentedKeys
        /\ Cardinality(DOMAIN loaded[1]) = 7

\* the descriptor has been read and its app is running
C3_Witness == managed /\ loaded = apps /\ status = "online"

\* ---------------------------------------------------------------- C4
\* C4: every live process, from the initial start or from a restart, was
\* forked as "./venv/bin/python" on "run.py" under the name "coda-helper",
\* with an env mapping that sets exactly PYTHONPATH = ".".
C4_LaunchFromDescriptor ==
    \A p \in procs :
        /\ p.name = "coda-helper"
        /\ p.script = "run.py"
        /\ p.interpreter = <<".", "venv", "bin", "python">>
        /\ DOMAIN p.env = {"PYTHONPATH"}
        /\ p.env.PYTHONPATH = "."

\* a process alive after the second restart, launched after the initial one
C4_Witness == restarts = 2 /\ \E p \in procs : p.launch > 1

\* ---------------------------------------------------------------- C5
\* C5: the manifest's caret constraints (python, the runtime dependencies and
\* the dev group) are satisfiable together: some interpreter version meets the
\* python constraint, every package has a release meeting every constraint
\* declared on it, and the versions a successful install locked meet them all.
C5_ConstraintsSatisfiable ==
    /\ \E py \in PyenvVersions : ManifestAdmits(py)
    /\ \A p \in Packages :
         \E v \in Index(p) : \A d \in Declared : d.name = p => Satisfies(v, d.spec)
    /\ installState = "ok" =>
         /\ ManifestAdmits(pinned)
         /\ DOMAIN lock = Packages
         /\ \A d \in Declared : d.name # "python" => Satisfies(lock[d.name], d.spec)

\* the install has resolved and locked one version for each of the twelve packages
C5_Witness == installState = "ok" /\ Cardinality(DOMAIN lock) = 12 /\ step = 5

\* ---------------------------------------------------------------- C6
\* C6: wherever the manifest is present, the module named by build-backend is
\* provided by a distribution listed in the build-system requires list.
C6_BackendProvided ==
    <<"pyproject.toml">> \in files =>
        \E dist \in BuildRequires : IsPrefix(Provides(dist), BuildBackend)

\* the manifest is in the project directory and names poetry-core's backend
C6_Witness ==
    /\ <<"pyproject.toml">> \in files
    /\ <<"poetry", "core">> \in BuildRequires
    /\ step = 1

\* ---------------------------------------------------------------- C7
\* the five roles the specification gives the development dependency set
Roles == {"test runner", "coverage tool", "HTTP test client",
          "mocking plugin", "async test plugin"}

\* what each development package is
RoleOf(name) ==
    CASE name = "pytest"         -> "test runner"
      [] name = "coverage"       -> "coverage tool"
      [] name = "pytest-cov"     -> "coverage tool"
      [] name = "httpx"          -> "HTTP test client"
      [] name = "pytest-mock"    -> "mocking plugin"
      [] name = "pytest-asyncio" -> "async test plugin"
      [] name = "asgiref"        -> "ASGI utility library"
      [] OTHER                   -> "other"

DevNames == { d.name : d \in DevDependencies }

\* C7 as stated: once installed, every package of the dev group falls under
\* one of the five roles and every role is filled.
C7_DevGroupIsFiveRoles ==
    installState = "ok" =>
        /\ \A n \in DevNames : n \in DOMAIN lock /\ RoleOf(n) \in Roles
        /\ \A r \in Roles : \E n \in DevNames : RoleOf(n) = r

\* C7 amended: once installed, every role is filled by a package of the dev
\* group, and every package of the dev group other than asgiref falls under
\* one of the five roles.
C7_DevGroupRolesButAsgiref ==
    installState = "ok" =>
        /\ \A n \in DevNames : n \in DOMAIN lock
        /\ \A n \in DevNames \ {"asgiref"} : RoleOf(n) \in Roles
        /\ \A r \in Roles : \E n \in DevNames : RoleOf(n) = r

\* the dev group, asgiref included, has been installed
C7_Witness == installState = "ok" /\ "asgiref" \in DOMAIN lock /\ step = 6

\* ---------------------------------------------------------------- C9
\* C9: once the README's steps up to "poetry install" have been run in order
\* with the documented pin, the descriptor's interpreter path exists and is the
\* interpreter of the environment the dependencies were installed into; and no
\* process of the app is ever alive before the virtual environment was created.
C9_InterpreterAfterSetup ==
    /\ (step >= 5 /\ pinned = ReadmePin) =>
          /\ Normalize(App.interpreter) \in files
          /\ installState = "ok"
          /\ installedIn # NoEnv
          /\ EnvPython(installedIn) = Normalize(App.interpreter)
    /\ procs # {} => step >= 3

\* setup was completed with the documented pin and the app then launched
C9_Witness ==
    /\ step >= 5
    /\ pinned = ReadmePin
    /\ status = "online"
    /\ procs # {}

\* --------------------------------------------------------------- C10
\* C10 as stated: the README's pin 3.10.9 meets the manifest's python
\* constraint, and an interpreter version is admitted by the README's
\* "Python 3.10+" exactly when the manifest's "^3.10" admits it.
C10_ReadmeMatchesManifest ==
    /\ ManifestAdmits(ReadmePin)
    /\ pinned # NoVersion => (ReadmeAdmits(pinned) <=> ManifestAdmits(pinned))

====
